---- MODULE Spec2Model ----
(***************************************************************************)
(* Amortization engine of src/app.py: calc_standard_emi, simulate_schedule, *)
(* is_prepay_event and simulate_with_prepay.                                *)
(*                                                                          *)
(* Decimal values are integers counting Unit-ths of one currency unit       *)
(* (Unit = 10^6, six fractional digits).  The loans of Loans are chosen so  *)
(* that every product and quotient the simulators form has at most six      *)
(* fractional digits, hence Decimal's 28-digit context never rounds and the *)
(* integer arithmetic below is the arithmetic of the code (Exact states     *)
(* this and is checked with the other properties).  The only roundings are  *)
(* the explicit quantize(Decimal("0.01"), ROUND_HALF_UP) calls.             *)
(*                                                                          *)
(* A behaviour is one call of simulate_schedule followed by one call of     *)
(* simulate_with_prepay on the same principal, rate, term and EMI argument, *)
(* one loop iteration per step.                                             *)
(***************************************************************************)
EXTENDS Integers, Sequences, FiniteSets, TLC

VARIABLES principal, annual_rate_pct, months, starting_emi,
          extra_emi_amount, lump_sum_amount, emi_increase_pct_per_year,
          start_after_months, frequency,
          pc, emi, extra, lump, month, interest_total, remaining, schedule,
          baseline, with_prepay

args   == <<principal, annual_rate_pct, months, starting_emi>>
policy == <<extra_emi_amount, lump_sum_amount, emi_increase_pct_per_year,
            start_after_months, frequency>>
locals == <<emi, extra, lump, month, interest_total, remaining, schedule>>
vars   == <<args, policy, pc, locals, baseline, with_prepay>>

----------------------------------------------------------------------------
(* Representation of Decimal *)

Unit == 1000000
Cent == Unit \div 100
Epsilon == Cent \div 2
MaxIterations == 2000

None == <<>>
Some(v) == <<v>>
Truthy(opt) == opt # None /\ opt[1] # 0
OrZero(opt) == IF Truthy(opt) THEN opt[1] ELSE 0

Min(a, b) == IF a <= b THEN a ELSE b
Max(a, b) == IF a >= b THEN a ELSE b

RECURSIVE GCD(_, _)
GCD(a, b) == IF b = 0 THEN a ELSE GCD(b, a % b)

RECURSIVE Pow(_, _)
Pow(b, e) == IF e = 0 THEN 1 ELSE b * Pow(b, e - 1)

\* a / b quantized to 0.01 with ROUND_HALF_UP (ties away from zero), b > 0
QuantizeRatio(a, b) ==
    IF a >= 0 THEN ((2 * a + b * Cent) \div (2 * b * Cent)) * Cent
    ELSE -(((2 * (-a) + b * Cent) \div (2 * b * Cent)) * Cent)

money(x) == QuantizeRatio(x, 1)

\* annual_pct / 1200 as a fraction in lowest terms
monthly_rate(annual_pct) ==
    LET g == GCD(1200, annual_pct)
    IN  [num |-> annual_pct \div g, den |-> 1200 \div g]

\* x * r for a rate r; Exact states that the division leaves no remainder
Times(x, r) == (x * r.num) \div r.den

calc_standard_emi(P, annual_pct, n) ==
    LET r == monthly_rate(annual_pct)
    IN  IF n <= 0 THEN 0
        ELSE IF r.num = 0 THEN QuantizeRatio(P, n)
        ELSE LET numerator == Times(P, r)
                 \* 1 - (1 + r)^(-n) = (q - d) / q
                 q == Pow(r.den + r.num, n)
                 d == Pow(r.den, n)
             IN  QuantizeRatio(numerator * q, q - d)

----------------------------------------------------------------------------
(* Results of a call *)

NoResult == [kind |-> "none"]
Raise(msg) == [kind |-> "raise", error |-> "ValueError", message |-> msg]
Return(v) == [kind |-> "return", value |-> v]

\* sum of s[i][f] for i in lo..hi
RECURSIVE SumField(_, _, _, _)
SumField(s, f, lo, hi) ==
    IF lo > hi THEN 0
    ELSE IF lo = hi THEN s[lo][f]
    ELSE LET mid == (lo + hi) \div 2
         IN  SumField(s, f, lo, mid) + SumField(s, f, mid + 1, hi)

RECURSIVE SumOptField(_, _, _, _)
SumOptField(s, f, lo, hi) ==
    IF lo > hi THEN 0
    ELSE IF lo = hi THEN OrZero(s[lo][f])
    ELSE LET mid == (lo + hi) \div 2
         IN  SumOptField(s, f, lo, mid) + SumOptField(s, f, mid + 1, hi)

----------------------------------------------------------------------------
(* Arguments *)

MaxStartAfter == 2

C(cents) == cents * Cent

Frequencies == {"monthly", "quarterly", "half-yearly", "yearly", "once"}
ExtraAmounts == {0, C(50)}
LumpAmounts == {0, C(100)}
IncreasePcts == {-100, 0, 50}

\* interest-bearing loans, paid off within three months
InterestLoans ==
    [principal : {C(150)}, annual_rate_pct : {12, 120}, months : {1, 2},
     starting_emi : {None, Some(0), Some(C(1)), Some(C(100)), Some(C(151))}]

\* interest-free loans
ShortLoans ==
    [principal : {C(1), C(1000)}, annual_rate_pct : {0}, months : {1, 3},
     starting_emi : {None, Some(0), Some(C(10))}]

\* a loan whose standard EMI of 0.01 cannot repay it in 2000 months
LongLoans ==
    [principal : {C(2001)}, annual_rate_pct : {0}, months : {2000},
     starting_emi : {None}]

Loans == InterestLoans \cup ShortLoans \cup LongLoans

----------------------------------------------------------------------------
(* simulate_schedule *)


LoopCondition(rem, m) == rem > Epsilon /\ m < MaxIterations


\* the month counter left where it is
NextMonth_stuck(m) == m

\* month += 1
NextMonth(m) == m + 1

\* the guard with < for <=
NonAmortizing_strict(principal_component) == principal_component < 0

NonAmortizing(principal_component) == principal_component <= 0

ScheduleClamp(principal_component, rem, interest, e) ==
    IF principal_component > rem
    THEN [principal |-> rem, emi_for_month |-> interest + rem]
    ELSE [principal |-> principal_component, emi_for_month |-> e]


\* the final payment charged at the full EMI
PrepayClamp_fullemi(principal_component, rem, interest, e) ==
    IF principal_component >= rem
    THEN [principal |-> rem, emi_for_month |-> e]
    ELSE [principal |-> principal_component, emi_for_month |-> e]

PrepayClamp(principal_component, rem, interest, e) ==
    IF principal_component >= rem
    THEN [principal |-> rem, emi_for_month |-> interest + rem]
    ELSE [principal |-> principal_component, emi_for_month |-> e]

ChooseEmi(supplied, P, annual_pct, n) ==
    IF Truthy(supplied) THEN supplied[1] ELSE calc_standard_emi(P, annual_pct, n)

Init ==
    /\ \E loan \in Loans :
          /\ principal = loan.principal
          /\ annual_rate_pct = loan.annual_rate_pct
          /\ months = loan.months
          /\ starting_emi = loan.starting_emi
    /\ extra_emi_amount = 0
    /\ lump_sum_amount = 0
    /\ emi_increase_pct_per_year = 0
    /\ start_after_months = 0
    /\ frequency = "monthly"
    /\ pc = "call_schedule"
    /\ emi = 0 /\ extra = 0 /\ lump = 0 /\ month = 0
    /\ interest_total = 0 /\ remaining = 0 /\ schedule = <<>>
    /\ baseline = NoResult
    /\ with_prepay = NoResult

simulate_schedule_enter ==
    /\ pc = "call_schedule"
    /\ emi' = ChooseEmi(starting_emi, principal, annual_rate_pct, months)
    /\ month' = 0
    /\ interest_total' = 0
    /\ remaining' = principal
    /\ schedule' = <<>>
    /\ pc' = "schedule_loop"
    /\ UNCHANGED <<args, policy, extra, lump, baseline, with_prepay>>

simulate_schedule_iter ==
    /\ pc = "schedule_loop"
    /\ LoopCondition(remaining, month)
    /\ LET r == monthly_rate(annual_rate_pct)
           interest == Times(remaining, r)
           principal_component == emi - interest
           c == ScheduleClamp(principal_component, remaining, interest, emi)
       IN  /\ month' = NextMonth(month)
           /\ IF NonAmortizing(principal_component)
              THEN /\ baseline' = Raise("EMI does not cover interest; check inputs.")
                   /\ pc' = "call_prepay"
                   /\ UNCHANGED <<remaining, interest_total, schedule>>
              ELSE /\ remaining' = remaining - c.principal
                   /\ interest_total' = interest_total + interest
                   /\ schedule' = Append(schedule,
                          [month |-> month', emi |-> money(c.emi_for_month),
                           interest |-> money(interest),
                           principal |-> money(c.principal),
                           remaining |-> money(Max(remaining', 0))])
                   /\ UNCHANGED <<pc, baseline>>
    /\ UNCHANGED <<args, policy, emi, extra, lump, with_prepay>>

simulate_schedule_return ==
    /\ pc = "schedule_loop"
    /\ ~LoopCondition(remaining, month)
    /\ baseline' = Return([schedule |-> schedule, months |-> month,
                           total_interest |-> money(interest_total),
                           total_paid |-> money(SumField(schedule, "emi", 1, Len(schedule)))])
    /\ pc' = "call_prepay"
    /\ UNCHANGED <<args, policy, locals, with_prepay>>

----------------------------------------------------------------------------
(* simulate_with_prepay *)


\* "once" firing one month late
is_prepay_event_late(month_index, start_after, freq) ==
    IF month_index < 1 + start_after THEN FALSE
    ELSE LET offset_index == month_index - start_after
         IN  CASE freq = "monthly" -> TRUE
               [] freq = "quarterly" -> (offset_index - 1) % 3 = 0
               [] freq = "half-yearly" -> (offset_index - 1) % 6 = 0
               [] freq = "yearly" -> (offset_index - 1) % 12 = 0
               [] freq = "once" -> offset_index = 2
               [] OTHER -> FALSE

is_prepay_event(month_index, start_after, freq) ==
    IF month_index < 1 + start_after THEN FALSE
    ELSE LET offset_index == month_index - start_after
         IN  CASE freq = "monthly" -> TRUE
               [] freq = "quarterly" -> (offset_index - 1) % 3 = 0
               [] freq = "half-yearly" -> (offset_index - 1) % 6 = 0
               [] freq = "yearly" -> (offset_index - 1) % 12 = 0
               [] freq = "once" -> offset_index = 1
               [] OTHER -> FALSE


\* the step-up on every 12th month instead of the month after it
StepUpDue_m12(m, pct) == m > 1 /\ m % 12 = 0 /\ pct # 0

\* inc_pct = pct / 100; the step-up is due when inc_pct != 0 on an anniversary
StepUpDue(m, pct) == m > 1 /\ (m - 1) % 12 = 0 /\ pct # 0


\* the percentage subtracted instead of added
StepUp_down(e, pct) == QuantizeRatio(e * (100 - pct), 100)

\* (emi * (1 + inc_pct)).quantize(0.01, ROUND_HALF_UP)
StepUp(e, pct) == QuantizeRatio(e * (100 + pct), 100)


\* the payment added to the balance
Prepay_add(amount, rem) ==
    LET pay == Min(amount, rem)
    IN  [pay |-> pay, remaining |-> rem + pay]

\* pay = min(amount, remaining); remaining -= pay
Prepay(amount, rem) ==
    LET pay == Min(amount, rem)
    IN  [pay |-> pay, remaining |-> rem - pay]

simulate_with_prepay_enter ==
    /\ pc = "call_prepay"
    /\ \E x \in ExtraAmounts, l \in LumpAmounts, i \in IncreasePcts,
          s \in 0..MaxStartAfter, f \in Frequencies :
          /\ extra_emi_amount' = x
          /\ lump_sum_amount' = l
          /\ emi_increase_pct_per_year' = i
          /\ start_after_months' = s
          /\ frequency' = f
    /\ emi' = ChooseEmi(starting_emi, principal, annual_rate_pct, months)
    /\ extra' = extra_emi_amount'
    /\ lump' = lump_sum_amount'
    /\ month' = 0
    /\ interest_total' = 0
    /\ remaining' = principal
    /\ schedule' = <<>>
    /\ pc' = "prepay_loop"
    /\ UNCHANGED <<args, baseline, with_prepay>>

simulate_with_prepay_iter ==
    /\ pc = "prepay_loop"
    /\ LoopCondition(remaining, month)
    /\ LET r == monthly_rate(annual_rate_pct)
           m == NextMonth(month)
           e == IF StepUpDue(m, emi_increase_pct_per_year)
                THEN StepUp(emi, emi_increase_pct_per_year) ELSE emi
           interest == Times(remaining, r)
           principal_component == e - interest
           c == PrepayClamp(principal_component, remaining, interest, e)
           event == is_prepay_event(m, start_after_months, frequency)
           pay_lump == event /\ lump > 0
           l == Prepay(lump, remaining - c.principal)
           rem1 == IF pay_lump THEN l.remaining ELSE remaining - c.principal
           pay_extra == event /\ extra > 0
           x == Prepay(extra, rem1)
           rem2 == IF pay_extra THEN x.remaining ELSE rem1
       IN  /\ month' = m
           /\ emi' = e
           /\ IF NonAmortizing(principal_component)
              THEN /\ with_prepay' = Raise("EMI too small to cover interest.")
                   /\ pc' = "done"
                   /\ UNCHANGED <<remaining, interest_total, schedule, lump, extra>>
              ELSE /\ remaining' = rem2
                   /\ interest_total' = interest_total + interest
                   /\ lump' = IF pay_lump /\ frequency = "once" THEN 0 ELSE lump
                   /\ extra' = IF pay_extra /\ frequency = "once" THEN 0 ELSE extra
                   /\ schedule' = Append(schedule,
                          [month |-> m, emi |-> money(c.emi_for_month),
                           interest |-> money(interest),
                           principal |-> money(c.principal),
                           extra_paid |-> IF pay_extra THEN Some(money(x.pay)) ELSE None,
                           lump_paid |-> IF pay_lump THEN Some(money(l.pay)) ELSE None,
                           remaining |-> money(Max(rem2, 0))])
                   /\ UNCHANGED <<pc, with_prepay>>
    /\ UNCHANGED <<args, policy, baseline>>

simulate_with_prepay_return ==
    /\ pc = "prepay_loop"
    /\ ~LoopCondition(remaining, month)
    /\ LET n == Len(schedule)
           total_paid == SumField(schedule, "emi", 1, n)
                         + SumOptField(schedule, "extra_paid", 1, n)
                         + SumOptField(schedule, "lump_paid", 1, n)
       IN  with_prepay' = Return([schedule |-> schedule, months |-> month,
                                  total_interest |-> money(interest_total),
                                  total_paid |-> money(total_paid)])
    /\ pc' = "done"
    /\ UNCHANGED <<args, policy, locals, baseline>>

Next ==
    \/ simulate_schedule_enter
    \/ simulate_schedule_iter
    \/ simulate_schedule_return
    \/ simulate_with_prepay_enter
    \/ simulate_with_prepay_iter
    \/ simulate_with_prepay_return

Spec == Init /\ [][Next]_vars

----------------------------------------------------------------------------
(* Faithfulness of the integer arithmetic: every interest the loops compute *)
(* is an exact multiple of 1/Unit.                                          *)
Exact ==
    pc \in {"schedule_loop", "prepay_loop"} /\ LoopCondition(remaining, month)
        => (remaining * monthly_rate(annual_rate_pct).num)
               % monthly_rate(annual_rate_pct).den = 0

----------------------------------------------------------------------------
(* Properties *)

Returned(r) == r.kind = "return"
Raised(r) == r.kind = "raise"
Rate == monthly_rate(annual_rate_pct)
ZeroOrAbsent(opt) == opt = None \/ opt = Some(0)
CoreRow(row) == [month |-> row.month, emi |-> row.emi, interest |-> row.interest,
                 principal |-> row.principal, remaining |-> row.remaining]

InterestRowsSumToTotal(r) ==
    Returned(r) =>
        SumField(r.value.schedule, "interest", 1, Len(r.value.schedule))
            = r.value.total_interest

\* C1: in every returned result the 'interest' values of the rows add up to
\* 'total_interest' exactly.
C1_InterestRowsSumToTotal ==
    /\ pc = "call_prepay" => InterestRowsSumToTotal(baseline)
    /\ pc = "done" => InterestRowsSumToTotal(with_prepay)

\* C2: when simulate_schedule returns after fewer than 2000 iterations, the
\* 'remaining' of its last row is 0.00.
C2_FinalRemainingZero ==
    (pc = "call_prepay" /\ Returned(baseline)
        /\ baseline.value.months < MaxIterations
        /\ baseline.value.schedule # <<>>)
    => baseline.value.schedule[Len(baseline.value.schedule)].remaining = 0

\* C3: a month whose principal portion (EMI minus that month's interest) is
\* <= 0 ends the call with an error in that month: no row is added, no result
\* is returned then or later.
C3_NonAmortizingAborts ==
    [][/\ (pc = "schedule_loop" /\ LoopCondition(remaining, month)
              /\ emi - Times(remaining, Rate) <= 0)
          => (Raised(baseline') /\ schedule' = schedule /\ month' = month + 1)
       /\ (pc = "prepay_loop" /\ LoopCondition(remaining, month)
              /\ emi' - Times(remaining, Rate) <= 0)
          => (Raised(with_prepay') /\ schedule' = schedule /\ month' = month + 1)
       /\ Raised(baseline) => baseline' = baseline
       /\ Raised(with_prepay) => with_prepay' = with_prepay]_vars

C3_Witness ==
    /\ pc = "done"
    /\ Raised(baseline) /\ Raised(with_prepay)
    /\ month = 1 /\ emi - Times(remaining, Rate) <= 0

\* C4: both loops run at most 2000 iterations, each iteration advancing the
\* month by one; when the cap is reached with the balance above 0.005 the call
\* returns, without error, 'months' = 2000 and the rows computed so far.
C4_IterationCap ==
    /\ [](month <= MaxIterations /\ Len(schedule) <= MaxIterations)
    /\ [][/\ (pc \in {"schedule_loop", "prepay_loop"} /\ pc' = pc)
             => month' = month + 1
          /\ (pc = "schedule_loop" /\ month = MaxIterations /\ remaining > Epsilon)
             => /\ Returned(baseline')
                /\ baseline'.value.months = MaxIterations
                /\ baseline'.value.schedule = schedule
                /\ Len(schedule) = MaxIterations
          /\ (pc = "prepay_loop" /\ month = MaxIterations /\ remaining > Epsilon)
             => /\ Returned(with_prepay')
                /\ with_prepay'.value.months = MaxIterations
                /\ with_prepay'.value.schedule = schedule
                /\ Len(schedule) = MaxIterations]_vars

C4_Witness ==
    /\ pc = "done"
    /\ remaining > Epsilon
    /\ Returned(baseline) /\ baseline.value.months = MaxIterations
    /\ Returned(with_prepay) /\ with_prepay.value.months = MaxIterations

RemainingNonIncreasing(r) ==
    Returned(r) =>
        LET s == r.value.schedule
        IN  /\ s # <<>> => s[1].remaining <= principal
            /\ \A i \in 1..(Len(s) - 1) : s[i + 1].remaining <= s[i].remaining

OnceLumpRun ==
    /\ pc = "done"
    /\ Returned(with_prepay)
    /\ frequency = "once"
    /\ lump_sum_amount > 0
    /\ with_prepay.value.months >= start_after_months + 1

\* C6 (as stated): with frequency 'once' and a lump sum > 0, a schedule that
\* reaches month start_after_months + 1 has a non-zero 'lump_paid' on exactly
\* that row and a zero or absent one on every other row.
C6_LumpOnExactlyOneRow ==
    OnceLumpRun =>
        \A i \in 1..Len(with_prepay.value.schedule) :
            LET paid == with_prepay.value.schedule[i].lump_paid
            IN  IF i = start_after_months + 1 THEN ~ZeroOrAbsent(paid)
                ELSE ZeroOrAbsent(paid)

\* C6 (amended): with frequency 'once' and a lump sum of at least 0.005,
\* 'lump_paid' is zero or absent on every row other than that of month
\* start_after_months + 1; on that row it is present, and it is non-zero
\* whenever the schedule continues past that month; it can be 0.00 only on a
\* final row whose 'remaining' is 0.00.
C6_LumpOnceAmended ==
    (OnceLumpRun /\ lump_sum_amount >= Epsilon) =>
        LET s == with_prepay.value.schedule
            k == start_after_months + 1
        IN  /\ \A i \in 1..Len(s) : i # k => ZeroOrAbsent(s[i].lump_paid)
            /\ s[k].lump_paid # None
            /\ Len(s) > k => s[k].lump_paid[1] > 0
            /\ s[k].lump_paid[1] = 0 => (Len(s) = k /\ s[k].remaining = 0)

C6_Witness ==
    /\ OnceLumpRun
    /\ start_after_months = MaxStartAfter
    /\ Len(with_prepay.value.schedule) > start_after_months + 1
    /\ with_prepay.value.schedule[start_after_months + 1].lump_paid = Some(lump_sum_amount)

\* C7: the EMI a simulation starts with is the supplied starting/base EMI
\* whenever one is supplied, zero included, and calc_standard_emi(principal,
\* rate, months) only when none is supplied.
C7_SuppliedEmiUsed ==
    (pc \in {"schedule_loop", "prepay_loop"} /\ month = 0) =>
        emi = IF starting_emi # None THEN starting_emi[1]
              ELSE calc_standard_emi(principal, annual_rate_pct, months)

C9_AnnualStepUp ==
    [][(/\ pc = "prepay_loop"
        /\ month' = month + 1
        /\ emi_increase_pct_per_year # 0)
       => LET anniversary == month' > 1 /\ (month' - 1) % 12 = 0
              interest == Times(remaining, Rate)
          IN  /\ emi' # emi => anniversary
              /\ anniversary =>
                    emi' = QuantizeRatio(emi * (100 + emi_increase_pct_per_year), 100)
              /\ schedule' # schedule =>
                    LET row == schedule'[Len(schedule')]
                    IN  /\ row.interest = money(interest)
                        /\ row.principal = money(Min(emi' - interest, remaining))
                        /\ row.emi = money(Min(emi', interest + remaining))]_vars

C9_Witness ==
    /\ pc = "prepay_loop"
    /\ emi_increase_pct_per_year > 0
    /\ month = 25
    /\ Len(schedule) = 25
    /\ schedule[13].emi > schedule[12].emi
    /\ schedule[25].emi > schedule[24].emi
    /\ schedule[25].emi = emi

ZeroPolicy ==
    extra_emi_amount = 0 /\ lump_sum_amount = 0 /\ emi_increase_pct_per_year = 0

\* C10: with an all-zero prepayment policy simulate_with_prepay has the outcome
\* of simulate_schedule: both raise the same error, or both return the same
\* months, rows (month, emi, interest, principal, remaining) and totals.
C10_ZeroPolicyEqualsBaseline ==
    (pc = "done" /\ ZeroPolicy) =>
        /\ baseline.kind = with_prepay.kind
        /\ Raised(baseline) => baseline.error = with_prepay.error
        /\ Returned(baseline) =>
              LET b == baseline.value
                  w == with_prepay.value
              IN  /\ w.months = b.months
                  /\ w.total_interest = b.total_interest
                  /\ w.total_paid = b.total_paid
                  /\ Len(w.schedule) = Len(b.schedule)
                  /\ \A i \in 1..Len(b.schedule) :
                        CoreRow(w.schedule[i]) = b.schedule[i]

\* the month in which EMI minus interest equals the balance exactly, where the
\* two clamps take different branches
C10_Witness ==
    /\ pc = "done" /\ ZeroPolicy
    /\ Returned(baseline) /\ Returned(with_prepay)
    /\ annual_rate_pct > 0
    /\ baseline.value.months = 1
    /\ emi - Times(principal, Rate) = principal

====
